---- MODULE Spec2Model ----
(***************************************************************************)
(* The signup saga of pages/api/signup.ts: the handler that onboards a     *)
(* team (organization) and its first admin user, and rollbackOrganization, *)
(* the compensation that deletes the organization again.                   *)
(*                                                                         *)
(* A run of the handler is a process whose position (pc) is the awaited    *)
(* call it is about to make.  One action is one awaited call together with *)
(* the handler code up to the next await of a step; the awaited rollback   *)
(* of a failure branch and the response that follows it belong to the      *)
(* action of the step that failed.  The imported step handlers (getToken,  *)
(* validateOrgName, createOrg, ...) are the environment: each call draws   *)
(* its outcome (what the callee wrote into the mock response, what the     *)
(* poll helper returned, or a thrown exception) from a small set.          *)
(***************************************************************************)
EXTENDS Integers, Sequences, FiniteSets, TLC

VARIABLES
    pc,               \* pc[r]: position of run r of handler
    req,              \* req[r]: the incoming request (method, body)
    rootAccessToken,  \* const rootAccessToken = tokenData.access_token
    orgData,          \* const orgData = createOrgRes.data
    orgId,            \* const orgId = orgData.id
    accessToken,      \* const accessToken = switchOrgRes.data.access_token
    userData,         \* const userData = data (of pollForUserCreation)
    appId,            \* const appId = appRes.data.applications[0].id
    roleId,           \* const roleId = roleRes.data.Resources[0].id
    response,         \* response[r]: what was sent through res, in order
    trace,            \* trace[r]: the calls run r made, with their outcomes
    remoteOrgs        \* ids of the organizations that exist in the remote service

vars == <<pc, req, rootAccessToken, orgData, orgId, accessToken, userData,
          appId, roleId, response, trace, remoteOrgs>>

Runs == {1, 2}

-----------------------------------------------------------------------------
(* JavaScript values *)

Undefined == "undefined"

Null == [x \in {} |-> Undefined]

\* !v for a string or undefined v
Falsy(v) == v \in {Undefined, ""}

\* rec.f, undefined when rec has no such property
Field(rec, f) == IF f \in DOMAIN rec THEN rec[f] ELSE Undefined

\* a || b
OrElse(a, b) == IF Falsy(a) THEN b ELSE a

-----------------------------------------------------------------------------
(* The request *)

FieldValues == {Undefined, "", "x"}

Methods == {"POST", "GET"}

Bodies == [firstName : FieldValues, lastName : FieldValues, email : FieldValues,
           password : FieldValues, organizationName : FieldValues,
           appName : FieldValues]

Requests == [method : Methods, body : Bodies]

IdleRequest == [method |-> "GET",
                body |-> [firstName |-> Undefined, lastName |-> Undefined,
                          email |-> Undefined, password |-> Undefined,
                          organizationName |-> Undefined, appName |-> Undefined]]

-----------------------------------------------------------------------------
(* The remote service and the imported step handlers.  Their contract: a    *)
(* token that getToken or switchOrg returns is a non-empty string, and a   *)
(* 201 of createOrg carries the record of the created organization with    *)
(* its id.  Under it the guard rootAccessToken && orgId of the rollbacks   *)
(* is true wherever the handler evaluates it.  Every call may also throw.  *)

RootToken == "root-token"

OrgIdOf(r) == IF r = 1 THEN "org1" ELSE "org2"

OrgToken(id) == IF id = "org1" THEN "org1-token" ELSE "org2-token"

UserIdOf(r) == IF r = 1 THEN "u1" ELSE "u2"

Throw == [kind |-> "throw"]

NotPostStatuses == {404, 405}

GetTokenOutcomes ==
    {[kind |-> "return", tokenData |-> [access_token |-> RootToken]], Throw}

ValidateOrgNameOutcomes ==
    {[kind |-> "return", statusCode |-> s, data |-> [checkName |-> s]] :
        s \in {200, 400, 500}} \cup {Throw}

CreateOrgOutcomes(r) ==
    {[kind |-> "return", statusCode |-> 201,
      data |-> [id |-> OrgIdOf(r), name |-> req[r].body.organizationName]]}
    \cup {[kind |-> "return", statusCode |-> s, data |-> [error |-> "addTeam", code |-> s]] :
            s \in {400, 409}}
    \cup {Throw}

SwitchOrgOutcomes(id) ==
    {[kind |-> "return", statusCode |-> 200, data |-> [access_token |-> OrgToken(id)]]}
    \cup {[kind |-> "return", statusCode |-> s, data |-> [error |-> "switchOrg", code |-> s]] :
            s \in {401, 500}}
    \cup {Throw}

PollUserstoreOutcomes ==
    {[kind |-> "return", value |-> b] : b \in BOOLEAN} \cup {Throw}

PollUserOutcomes(r) ==
    {[kind |-> "return", success |-> TRUE, status |-> 201, data |-> [id |-> UserIdOf(r)]]}
    \cup {[kind |-> "return", success |-> FALSE, status |-> s, data |-> d] :
            s \in {400, 500}, d \in {[error |-> "user not created"], [detail |-> "scim"]}}
    \cup {Throw}

ListApplicationOutcomes ==
    {[kind |-> "return", statusCode |-> 200, data |-> [applications |-> <<[id |-> "app1"]>>]],
     [kind |-> "return", statusCode |-> 200, data |-> [applications |-> <<>>]],
     [kind |-> "return", statusCode |-> 200, data |-> [totalResults |-> 0]],
     [kind |-> "return", statusCode |-> 500, data |-> [error |-> "listCurrentApplication"]],
     Throw}

GetRoleOutcomes ==
    {[kind |-> "return", statusCode |-> 200, data |-> [Resources |-> <<[id |-> "role1"]>>]],
     [kind |-> "return", statusCode |-> 200, data |-> [Resources |-> <<>>]],
     [kind |-> "return", statusCode |-> 200, data |-> [totalResults |-> 0]],
     [kind |-> "return", statusCode |-> 500, data |-> [error |-> "getRole"]],
     Throw}

PollRolePatchOutcomes ==
    {[kind |-> "return", success |-> TRUE, status |-> s, data |-> [patched |-> s]] :
        s \in {200, 201, 204}}
    \cup {[kind |-> "return", success |-> FALSE, status |-> s, data |-> d] :
            s \in {400, 500}, d \in {[error |-> "role not patched"], [detail |-> "scim"]}}
    \cup {Throw}

\* what deleteTeam left in rollbackOrganization's mockRes, or that it threw
DeleteTeamOutcomes ==
    {[kind |-> "return", statusCode |-> 200, responseData |-> [success |-> TRUE]],
     [kind |-> "return", statusCode |-> 200, responseData |-> [success |-> FALSE]],
     [kind |-> "return", statusCode |-> 200, responseData |-> [message |-> "deleted"]],
     [kind |-> "return", statusCode |-> 500, responseData |-> [success |-> TRUE]],
     [kind |-> "return", statusCode |-> 0, responseData |-> Null],
     Throw}

-----------------------------------------------------------------------------
(* History of a run: every call it made and every response it sent *)

Call(op, token, id, out) == [op |-> op, token |-> token, orgId |-> id, out |-> out]

\* rollbackOrganization(token, id) returned value to the handler
RollbackReturn(token, id, value) ==
    Call("rollbackOrganization", token, id, [kind |-> "return", value |-> value])

RespondEvent(status) == Call("respond", "-", "-", [kind |-> "sent", statusCode |-> status])

-----------------------------------------------------------------------------
(* rollbackOrganization and the conditions the handler branches on *)

\* the success flag of the payload not looked at
rollbackOrganization_StatusOnly(token, id, d) ==
    d.kind = "return" /\ d.statusCode = 200

\* lines 60-74: the value rollbackOrganization returns when deleteTeam ended as d
rollbackOrganization(token, id, d) ==
    IF d.kind = "throw"
    THEN FALSE
    ELSE /\ d.statusCode = 200
         /\ "success" \in DOMAIN d.responseData
         /\ d.responseData.success = TRUE

\* the check with the team name forgotten
MissingField_NoTeam(body) ==
    \/ Falsy(body.firstName)
    \/ Falsy(body.lastName)
    \/ Falsy(body.email)
    \/ Falsy(body.password)

\* line 96: !firstName || !lastName || !email || !password || !organizationName
MissingField(body) ==
    \/ Falsy(body.firstName)
    \/ Falsy(body.lastName)
    \/ Falsy(body.email)
    \/ Falsy(body.password)
    \/ Falsy(body.organizationName)

\* the name of the organization taken for its id
OrgIdFrom_Name(data) == Field(data, "name")

\* line 158: const orgId = orgData.id
OrgIdFrom(data) == Field(data, "id")

\* the guard with the organization id test inverted
NeedsRollback_Inverted(token, id) == ~Falsy(token) /\ Falsy(id)

\* the guard of every rollback: rootAccessToken && orgId
NeedsRollback(token, id) == ~Falsy(token) /\ ~Falsy(id)

\* only a server error of the name check counts as a failed validation
OrgNameValid_Lax(out) == out.statusCode < 500

\* line 127 negated: mockRes.statusCode === 200
OrgNameValid(out) == out.statusCode = 200

\* line 153 negated: createOrgRes.statusCode === 201
OrgCreated(out) == out.statusCode = 201

\* only a server error of the exchange counts as a failed switch
OrgSwitched_Lax(out) == out.statusCode < 500

\* line 179 negated: switchOrgRes.statusCode === 200
OrgSwitched(out) == out.statusCode = 200

\* lines 255-259 negated
ApplicationFound(out) ==
    /\ out.statusCode = 200
    /\ "applications" \in DOMAIN out.data
    /\ Len(out.data.applications) # 0

\* lines 299-303 negated
RoleFound(out) ==
    /\ out.statusCode = 200
    /\ "Resources" \in DOMAIN out.data
    /\ Len(out.data.Resources) # 0

\* line 267: `Sign up failed. Application '${appName}' not found`
AppNotFoundMessage(appName) ==
    CASE appName = "x" -> "Sign up failed. Application 'x' not found"
      [] appName = "" -> "Sign up failed. Application '' not found"
      [] OTHER -> "Sign up failed. Application 'undefined' not found"

\* the result of the userstore poll ignored
UserstoreReady_Ignored(out) == TRUE

\* line 200 negated: defaultUserstoreExists
UserstoreReady(out) == out.value

\* any 2xx status of the role patch accepted
RolePatchOk_Any2xx(out) == out.status < 300

\* line 330 negated: rolePatchstatus === 200
RolePatchOk(out) == out.status = 200

-----------------------------------------------------------------------------
(* Sending a response *)

\* res.status(status).json(body), after the calls evs; the run ends
Send(r, status, body, evs) ==
    /\ response' = [response EXCEPT ![r] = Append(@, [statusCode |-> status, body |-> body])]
    /\ trace' = [trace EXCEPT ![r] = @ \o evs \o <<RespondEvent(status)>>]
    /\ pc' = [pc EXCEPT ![r] = "done"]

\* a catch block that rolls back whenever it holds a root token
CatchBlock_Rollback(r, evs) ==
    /\ UNCHANGED remoteOrgs
    /\ \E d \in DeleteTeamOutcomes :
        Send(r, 500, [error |-> "Internal Server Error", message |-> "error.message"],
             IF ~Falsy(rootAccessToken[r])
             THEN evs \o <<Call("deleteTeam", rootAccessToken[r], orgId[r], d)>>
             ELSE evs)

\* a catch block that leaves the message of the exception out
CatchBlock_NoMessage(r, evs) ==
    /\ Send(r, 500, [error |-> "Internal Server Error"], evs)
    /\ UNCHANGED remoteOrgs

\* a catch block that logs and throws the exception on
CatchBlock_Rethrow(r, evs) ==
    /\ pc' = [pc EXCEPT ![r] = "rejected"]
    /\ trace' = [trace EXCEPT ![r] = @ \o evs]
    /\ UNCHANGED <<response, remoteOrgs>>

\* lines 345-351: the catch block of the handler
CatchBlock(r, evs) ==
    /\ Send(r, 500, [error |-> "Internal Server Error", message |-> "error.message"], evs)
    /\ UNCHANGED remoteOrgs

\* a failure branch that answers 500 when the rollback was not confirmed
RollbackAndSend_Escalate(r, evs, status, body) ==
    \E d \in DeleteTeamOutcomes :
        LET confirmed == rollbackOrganization(rootAccessToken[r], orgId[r], d) IN
        /\ remoteOrgs' = IF confirmed THEN remoteOrgs \ {orgId[r]} ELSE remoteOrgs
        /\ Send(r, IF confirmed THEN status ELSE 500,
                IF confirmed THEN body ELSE [error |-> "Rollback failed"],
                evs \o <<Call("deleteTeam", rootAccessToken[r], orgId[r], d)>>)

\* a failure branch that reports the value of rollbackOrganization
RollbackAndSend_Flagged(r, evs, status, body) ==
    \E d \in DeleteTeamOutcomes :
        LET confirmed == rollbackOrganization(rootAccessToken[r], orgId[r], d) IN
        /\ remoteOrgs' = IF confirmed THEN remoteOrgs \ {orgId[r]} ELSE remoteOrgs
        /\ Send(r, status,
                [f \in DOMAIN body \cup {"compensated"} |->
                    IF f = "compensated" THEN confirmed ELSE body[f]],
                evs \o <<Call("deleteTeam", rootAccessToken[r], orgId[r], d),
                         RollbackReturn(rootAccessToken[r], orgId[r], confirmed)>>)

\* a failure branch that answers every failure with a plain 500
RollbackAndSend_Plain500(r, evs, status, body) ==
    \E d \in DeleteTeamOutcomes :
        /\ remoteOrgs' =
                IF rollbackOrganization(rootAccessToken[r], orgId[r], d)
                THEN remoteOrgs \ {orgId[r]}
                ELSE remoteOrgs
        /\ Send(r, 500, body,
                evs \o <<Call("deleteTeam", rootAccessToken[r], orgId[r], d),
                         RollbackReturn(rootAccessToken[r], orgId[r],
                             rollbackOrganization(rootAccessToken[r], orgId[r], d))>>)

\* a failure branch after organization creation: the guarded, awaited
\* rollbackOrganization(rootAccessToken, orgId), then the response
RollbackAndSend(r, evs, status, body) ==
    \E d \in DeleteTeamOutcomes :
        IF NeedsRollback(rootAccessToken[r], orgId[r])
        THEN /\ remoteOrgs' =
                    IF rollbackOrganization(rootAccessToken[r], orgId[r], d)
                    THEN remoteOrgs \ {orgId[r]}
                    ELSE remoteOrgs
             /\ Send(r, status, body,
                     evs \o <<Call("deleteTeam", rootAccessToken[r], orgId[r], d),
                              RollbackReturn(rootAccessToken[r], orgId[r],
                                  rollbackOrganization(rootAccessToken[r], orgId[r], d))>>)
        ELSE /\ UNCHANGED remoteOrgs
             /\ Send(r, status, body, evs)

\* the run goes on to its next awaited call
Goto(r, next, evs) ==
    /\ pc' = [pc EXCEPT ![r] = next]
    /\ trace' = [trace EXCEPT ![r] = @ \o evs]
    /\ UNCHANGED response

-----------------------------------------------------------------------------
(* The handler, one action per awaited step *)

\* a run that enters the name check waits while another run is between its
\* own name check and its create organization
At_Serialized(r, label) ==
    /\ pc[r] = label
    /\ label = "validateOrgName" => \A o \in Runs \ {r} : pc[o] # "createOrg"

\* run r is about to make the call label: nothing but the run's own position
\* decides whether it goes on (no lock, no queue, no look at another run)
At(r, label) == pc[r] = label

\* lines 89-101: method check and required fields
HandleRequest(r) ==
    /\ At(r, "start")
    /\ UNCHANGED <<req, rootAccessToken, orgData, orgId, accessToken, userData,
                   appId, roleId, remoteOrgs>>
    /\ IF req[r].method # "POST"
       THEN \E s \in NotPostStatuses : Send(r, s, [error |-> "notPostError"], <<>>)
       ELSE IF MissingField(req[r].body)
       THEN Send(r, 400,
                 [error |-> "All fields are required: Email, Password, First Name, Last Name and Team Name"],
                 <<>>)
       ELSE Goto(r, "getToken", <<>>)

\* lines 105-106: Step 1, get access token
GetTokenStep(r) ==
    /\ At(r, "getToken")
    /\ UNCHANGED <<req, orgData, orgId, accessToken, userData, appId, roleId>>
    /\ \E out \in GetTokenOutcomes :
        LET ev == <<Call("getToken", "-", "-", out)>> IN
        IF out.kind = "throw"
        THEN CatchBlock(r, ev) /\ UNCHANGED rootAccessToken
        ELSE /\ rootAccessToken' = [rootAccessToken EXCEPT ![r] = out.tokenData.access_token]
             /\ Goto(r, "validateOrgName", ev)
             /\ UNCHANGED remoteOrgs

\* lines 109-132: Step 2, validate organization name
ValidateOrgNameStep(r) ==
    /\ At(r, "validateOrgName")
    /\ UNCHANGED <<req, rootAccessToken, orgData, orgId, accessToken, userData,
                   appId, roleId>>
    /\ \E out \in ValidateOrgNameOutcomes :
        LET ev == <<Call("validateOrgName", rootAccessToken[r], "-", out)>> IN
        IF out.kind = "throw"
        THEN CatchBlock(r, ev)
        ELSE IF ~OrgNameValid(out)
        THEN /\ Send(r, 400, [error |-> "Organization name validation failed",
                              details |-> out.data], ev)
             /\ UNCHANGED remoteOrgs
        ELSE Goto(r, "createOrg", ev) /\ UNCHANGED remoteOrgs

\* lines 135-158: Step 3, create organization
CreateOrgStep(r) ==
    /\ At(r, "createOrg")
    /\ UNCHANGED <<req, rootAccessToken, accessToken, userData, appId, roleId>>
    /\ \E out \in CreateOrgOutcomes(r) :
        LET ev == <<Call("createOrg", rootAccessToken[r], "-", out)>> IN
        IF out.kind = "throw"
        THEN CatchBlock(r, ev) /\ UNCHANGED <<orgData, orgId>>
        ELSE IF ~OrgCreated(out)
        THEN /\ Send(r, out.statusCode, out.data, ev)
             /\ UNCHANGED <<orgData, orgId, remoteOrgs>>
        ELSE /\ remoteOrgs' = remoteOrgs \cup {out.data.id}
             /\ orgData' = [orgData EXCEPT ![r] = out.data]
             /\ orgId' = [orgId EXCEPT ![r] = OrgIdFrom(out.data)]
             /\ Goto(r, "switchOrg", ev)

AccessTokenFrom_Root(data) == RootToken

\* line 192: const accessToken = switchOrgRes.data.access_token
AccessTokenFrom(data) == Field(data, "access_token")

\* lines 161-192: Step 4, switch to the newly created organization
SwitchOrgStep(r) ==
    /\ At(r, "switchOrg")
    /\ UNCHANGED <<req, rootAccessToken, orgData, orgId, userData, appId, roleId>>
    /\ \E out \in SwitchOrgOutcomes(orgId[r]) :
        LET ev == <<Call("switchOrg", rootAccessToken[r], orgId[r], out)>> IN
        IF out.kind = "throw"
        THEN CatchBlock(r, ev) /\ UNCHANGED accessToken
        ELSE IF ~OrgSwitched(out)
        THEN /\ RollbackAndSend(r, ev, out.statusCode,
                    [error |-> "Failed to switch to the new organization",
                     details |-> out.data,
                     message |-> "Sign up failed. Please try again."])
             /\ UNCHANGED accessToken
        ELSE /\ accessToken' = [accessToken EXCEPT ![r] = AccessTokenFrom(out.data)]
             /\ Goto(r, "pollForDefaultUserstore", ev)
             /\ UNCHANGED remoteOrgs

\* lines 195-211: Step 5, check for DEFAULT userstore
PollUserstoreStep(r) ==
    /\ At(r, "pollForDefaultUserstore")
    /\ UNCHANGED <<req, rootAccessToken, orgData, orgId, accessToken, userData,
                   appId, roleId>>
    /\ \E out \in PollUserstoreOutcomes :
        LET ev == <<Call("pollForDefaultUserstore", accessToken[r], orgId[r], out)>> IN
        IF out.kind = "throw"
        THEN CatchBlock(r, ev)
        ELSE IF ~UserstoreReady(out)
        THEN RollbackAndSend(r, ev, 408,
                    [error |-> "Timed out waiting for DEFAULT userstore to be provisioned",
                     message |-> "Sign up failed. Please try again."])
        ELSE Goto(r, "pollForUserCreation", ev) /\ UNCHANGED remoteOrgs

\* lines 214-233: Step 6, create user
PollUserCreationStep(r) ==
    /\ At(r, "pollForUserCreation")
    /\ UNCHANGED <<req, rootAccessToken, orgData, orgId, accessToken, appId, roleId>>
    /\ \E out \in PollUserOutcomes(r) :
        LET ev == <<Call("pollForUserCreation", accessToken[r], orgId[r], out)>> IN
        IF out.kind = "throw"
        THEN CatchBlock(r, ev) /\ UNCHANGED userData
        ELSE IF ~out.success
        THEN /\ RollbackAndSend(r, ev, out.status,
                    [error |-> OrElse(Field(out.data, "error"),
                                      "Sign up failed. Please try again.")])
             /\ UNCHANGED userData
        ELSE /\ userData' = [userData EXCEPT ![r] = out.data]
             /\ Goto(r, "listCurrentApplication", ev)
             /\ UNCHANGED remoteOrgs

\* lines 236-270: Step 7, get application ID
ListApplicationStep(r) ==
    /\ At(r, "listCurrentApplication")
    /\ UNCHANGED <<req, rootAccessToken, orgData, orgId, accessToken, userData, roleId>>
    /\ \E out \in ListApplicationOutcomes :
        LET ev == <<Call("listCurrentApplication", accessToken[r], orgId[r], out)>> IN
        IF out.kind = "throw"
        THEN CatchBlock(r, ev) /\ UNCHANGED appId
        ELSE IF ~ApplicationFound(out)
        THEN /\ RollbackAndSend(r, ev, 404,
                    [error |-> AppNotFoundMessage(req[r].body.appName)])
             /\ UNCHANGED appId
        ELSE /\ appId' = [appId EXCEPT ![r] = out.data.applications[1].id]
             /\ Goto(r, "getRole", ev)
             /\ UNCHANGED remoteOrgs

\* lines 273-312: Steps 8 and 9, get the admin role ID
GetRoleStep(r) ==
    /\ At(r, "getRole")
    /\ UNCHANGED <<req, rootAccessToken, orgData, orgId, accessToken, userData, appId>>
    /\ \E out \in GetRoleOutcomes :
        LET ev == <<Call("getRole", accessToken[r], orgId[r], out)>> IN
        IF out.kind = "throw"
        THEN CatchBlock(r, ev) /\ UNCHANGED roleId
        ELSE IF ~RoleFound(out)
        THEN /\ RollbackAndSend(r, ev, 404,
                    [error |-> "Sign up failed. Admin role not found"])
             /\ UNCHANGED roleId
        ELSE /\ roleId' = [roleId EXCEPT ![r] = out.data.Resources[1].id]
             /\ Goto(r, "pollforRolePatching", ev)
             /\ UNCHANGED remoteOrgs

\* lines 315-344: Step 10, add user to the admin role, and the success response
PollRolePatchStep(r) ==
    /\ At(r, "pollforRolePatching")
    /\ UNCHANGED <<req, rootAccessToken, orgData, orgId, accessToken, userData,
                   appId, roleId>>
    /\ \E out \in PollRolePatchOutcomes :
        LET ev == <<Call("pollforRolePatching", accessToken[r], "-", out)>> IN
        IF out.kind = "throw"
        THEN CatchBlock(r, ev)
        ELSE IF ~out.success
        THEN RollbackAndSend(r, ev, out.status,
                    [error |-> OrElse(Field(out.data, "error"),
                                      "Sign up failed. Couldn't add user to Admin role.")])
        ELSE IF ~RolePatchOk(out)
        THEN RollbackAndSend(r, ev, out.status, out.data)
        ELSE /\ Send(r, 201, [success |-> TRUE, organization |-> orgData[r],
                              user |-> userData[r], roleAssignment |-> out.data], ev)
             /\ UNCHANGED remoteOrgs

-----------------------------------------------------------------------------
(* Specification: one request, handled by run 1 *)

\* orgData and userData are declared where they are assigned (lines 157, 232)
\* and hold an object from then on; before that they stand for no data
Unassigned == [x \in {} |-> Undefined]

InitLocals ==
    /\ rootAccessToken = [r \in Runs |-> Undefined]
    /\ orgData = [r \in Runs |-> Unassigned]
    /\ orgId = [r \in Runs |-> Undefined]
    /\ accessToken = [r \in Runs |-> Undefined]
    /\ userData = [r \in Runs |-> Unassigned]
    /\ appId = [r \in Runs |-> Undefined]
    /\ roleId = [r \in Runs |-> Undefined]
    /\ response = [r \in Runs |-> <<>>]
    /\ trace = [r \in Runs |-> <<>>]
    /\ remoteOrgs = {}

Init ==
    /\ InitLocals
    /\ pc = [r \in Runs |-> IF r = 1 THEN "start" ELSE "off"]
    /\ \E q \in Requests : req = [r \in Runs |-> IF r = 1 THEN q ELSE IdleRequest]

Next ==
    \E r \in Runs :
        \/ HandleRequest(r)
        \/ GetTokenStep(r)
        \/ ValidateOrgNameStep(r)
        \/ CreateOrgStep(r)
        \/ SwitchOrgStep(r)
        \/ PollUserstoreStep(r)
        \/ PollUserCreationStep(r)
        \/ ListApplicationStep(r)
        \/ GetRoleStep(r)
        \/ PollRolePatchStep(r)

Spec == Init /\ [][Next]_vars

-----------------------------------------------------------------------------
(* Specification: two requests for the same team, handled by two concurrent *)
(* runs.  The runs share nothing but the remote service.                    *)

PairRequests ==
    {q \in Requests :
        /\ q.method = "POST"
        /\ \A f \in {"firstName", "lastName", "email", "password", "organizationName"} :
                q.body[f] = "x"}

InitPair ==
    /\ InitLocals
    /\ pc = [r \in Runs |-> "start"]
    /\ \E q \in PairRequests : req = [r \in Runs |-> q]

SpecPair == InitPair /\ [][Next]_vars

-----------------------------------------------------------------------------
(* Reading a run's history *)

Idx(r, op) == {i \in DOMAIN trace[r] : trace[r][i].op = op}

OpsOf(r) == [i \in DOMAIN trace[r] |-> trace[r][i].op]

StepOps == {"getToken", "validateOrgName", "createOrg", "switchOrg",
            "pollForDefaultUserstore", "pollForUserCreation",
            "listCurrentApplication", "getRole", "pollforRolePatching"}

Returned(e) == e.out.kind = "return"

Threw(e) == e.out.kind = "throw"

\* the run called op and the call returned with this status code
ReturnedStatus(r, op, s) ==
    \E i \in Idx(r, op) : Returned(trace[r][i]) /\ trace[r][i].out.statusCode = s

\* create organization returned 201 in run r
CreatedOk(r) == ReturnedStatus(r, "createOrg", 201)

\* the ids of the organizations run r created
CreatedIds(r) ==
    {trace[r][i].out.data.id :
        i \in {j \in Idx(r, "createOrg") :
                 Returned(trace[r][j]) /\ trace[r][j].out.statusCode = 201}}

\* the root tokens run r obtained at step 1
RootTokensOf(r) ==
    {trace[r][i].out.tokenData.access_token :
        i \in {j \in Idx(r, "getToken") : Returned(trace[r][j])}}

Finished(r) == pc[r] = "done" /\ Len(response[r]) > 0

\* the 201 response with success: true and the three payloads
IsSuccess(resp) ==
    /\ resp.statusCode = 201
    /\ DOMAIN resp.body = {"success", "organization", "user", "roleAssignment"}
    /\ resp.body.success = TRUE

FailedRun(r) == Finished(r) /\ ~IsSuccess(response[r][1])

\* exactly one delete-organization call, for the organization the run
\* created and with the root token, made before the response was sent
CompensatedOnce(r) ==
    \E i \in Idx(r, "deleteTeam") :
        /\ Idx(r, "deleteTeam") = {i}
        /\ trace[r][i].orgId \in CreatedIds(r)
        /\ trace[r][i].token \in RootTokensOf(r)
        /\ \A j \in Idx(r, "respond") : i < j

-----------------------------------------------------------------------------
(* C1 - C4 *)

\* C1: every run that fails after create organization returned 201, however
\* it fails, issued exactly one delete-organization call with the created
\* organization's id and the root token, and that call returned before the
\* failure response was sent.
C1_CompensationOnEveryLaterFailure ==
    \A r \in Runs : (FailedRun(r) /\ CreatedOk(r)) => CompensatedOnce(r)

\* C2: a run that fails before organization creation has succeeded (missing
\* field, token fault, name validation other than 200, create organization
\* other than 201) issued no delete-organization call.
C2_NoCompensationBeforeCreation ==
    \A r \in Runs : (FailedRun(r) /\ ~CreatedOk(r)) => Idx(r, "deleteTeam") = {}

C2_Witness ==
    \E r \in Runs :
        /\ FailedRun(r)
        /\ ReturnedStatus(r, "createOrg", 409)
        /\ Idx(r, "deleteTeam") = {}

AnyOfSixMissing(body) ==
    \E f \in {"firstName", "lastName", "email", "password", "organizationName", "appName"} :
        body[f] \in {Undefined, ""}

AnyOfFiveMissing(body) ==
    \E f \in {"firstName", "lastName", "email", "password", "organizationName"} :
        body[f] \in {Undefined, ""}

\* the handler answered 400 and made no remote call at all
RejectedUpFront(r) ==
    /\ pc[r] = "done"
    /\ Len(response[r]) = 1
    /\ response[r][1].statusCode = 400
    /\ OpsOf(r) = <<"respond">>

\* C3 as stated: a POST request in which any one of the six fields
\* (appName included) is missing or empty gets 400 and no remote call.
C3_SixFieldsRequired ==
    \A r \in Runs :
        (req[r].method = "POST" /\ AnyOfSixMissing(req[r].body) /\ pc[r] \notin {"off", "start"})
            => RejectedUpFront(r)

\* C3 amended: a POST request in which any one of firstName, lastName, email,
\* password, organizationName is missing or empty gets 400 and no remote call.
C3_FiveFieldsRequired ==
    \A r \in Runs :
        (req[r].method = "POST" /\ AnyOfFiveMissing(req[r].body) /\ pc[r] \notin {"off", "start"})
            => RejectedUpFront(r)

C3_Witness ==
    \E r \in Runs :
        /\ req[r].method = "POST"
        /\ req[r].body.organizationName = ""
        /\ \A f \in {"firstName", "lastName", "email", "password", "appName"} :
                req[r].body[f] = "x"
        /\ RejectedUpFront(r)

HappyOps == <<"getToken", "validateOrgName", "createOrg", "switchOrg",
              "pollForDefaultUserstore", "pollForUserCreation",
              "listCurrentApplication", "getRole", "pollforRolePatching", "respond">>

\* every step was called once, in order, and each one succeeded
AllStepsSucceeded(r) ==
    /\ OpsOf(r) = HappyOps
    /\ \A i \in 1..9 : Returned(trace[r][i])
    /\ trace[r][2].out.statusCode = 200
    /\ trace[r][3].out.statusCode = 201
    /\ trace[r][4].out.statusCode = 200
    /\ trace[r][5].out.value = TRUE
    /\ trace[r][6].out.success = TRUE
    /\ trace[r][7].out.statusCode = 200
    /\ "applications" \in DOMAIN trace[r][7].out.data
    /\ trace[r][7].out.data.applications # <<>>
    /\ trace[r][8].out.statusCode = 200
    /\ "Resources" \in DOMAIN trace[r][8].out.data
    /\ trace[r][8].out.data.Resources # <<>>
    /\ trace[r][9].out.success = TRUE
    /\ trace[r][9].out.status = 200

\* C4: the handler responds 201 with {organization, user, roleAssignment}
\* exactly when every step succeeded in order; the three payloads are those
\* the create-organization, create-user and role-patch calls of the run
\* returned, and the run issued no delete-organization call.
C4_SuccessIffAllStepsSucceeded ==
    \A r \in Runs :
        Finished(r) =>
            /\ IsSuccess(response[r][1]) <=> AllStepsSucceeded(r)
            /\ IsSuccess(response[r][1]) =>
                /\ response[r][1].body.organization = trace[r][3].out.data
                /\ response[r][1].body.user = trace[r][6].out.data
                /\ response[r][1].body.roleAssignment = trace[r][9].out.data
                /\ Idx(r, "deleteTeam") = {}

C4_Witness ==
    \E r \in Runs :
        /\ Finished(r)
        /\ IsSuccess(response[r][1])
        /\ response[r][1].body.organization.id = "org1"
        /\ response[r][1].body.user.id = "u1"

-----------------------------------------------------------------------------
(* C5 - C10 *)

\* the steps that follow op in the handler
OpsAfter(op) ==
    CASE op = "switchOrg" ->
            {"pollForDefaultUserstore", "pollForUserCreation",
             "listCurrentApplication", "getRole", "pollforRolePatching"}
      [] op = "pollForDefaultUserstore" ->
            {"pollForUserCreation", "listCurrentApplication", "getRole",
             "pollforRolePatching"}
      [] op = "listCurrentApplication" -> {"getRole", "pollforRolePatching"}
      [] op = "getRole" -> {"pollforRolePatching"}
      [] OTHER -> {}

NoStepAfter(r, op) == \A i \in DOMAIN trace[r] : trace[r][i].op \notin OpsAfter(op)

\* the token exchange returned a status other than 200
SwitchRejected(r) ==
    \E i \in Idx(r, "switchOrg") :
        Returned(trace[r][i]) /\ trace[r][i].out.statusCode # 200

\* C5: when organization creation succeeded and the token exchange returns a
\* status other than 200, compensation is invoked with the created
\* organization's id and the root token, no later step is invoked, and the
\* caller receives the exchange's own status with the error "Failed to
\* switch to the new organization".
C5_SwitchFailureCompensates ==
    \A r \in Runs :
        (CreatedOk(r) /\ SwitchRejected(r)) =>
            /\ Finished(r)
            /\ CompensatedOnce(r)
            /\ NoStepAfter(r, "switchOrg")
            /\ \A i \in Idx(r, "switchOrg") :
                    response[r][1].statusCode = trace[r][i].out.statusCode
            /\ Field(response[r][1].body, "error") = "Failed to switch to the new organization"

C5_Witness ==
    \E r \in Runs :
        /\ ReturnedStatus(r, "switchOrg", 401)
        /\ Finished(r)
        /\ response[r][1].statusCode = 401
        /\ \E i \in Idx(r, "deleteTeam") :
                trace[r][i].orgId = "org1" /\ trace[r][i].token = "root-token"

\* the userstore poll reported that the DEFAULT userstore never became ready
UserstoreTimedOut(r) ==
    \E i \in Idx(r, "pollForDefaultUserstore") :
        Returned(trace[r][i]) /\ trace[r][i].out.value = FALSE

\* C6: when the userstore poll reports not-ready, compensation is invoked
\* for the created organization, user creation is never attempted, and the
\* caller receives 408 with the error "Timed out waiting for DEFAULT
\* userstore to be provisioned".
C6_UserstoreTimeoutCompensates ==
    \A r \in Runs :
        UserstoreTimedOut(r) =>
            /\ Finished(r)
            /\ CompensatedOnce(r)
            /\ NoStepAfter(r, "pollForDefaultUserstore")
            /\ response[r][1].statusCode = 408
            /\ Field(response[r][1].body, "error")
                    = "Timed out waiting for DEFAULT userstore to be provisioned"

C6_Witness ==
    \E r \in Runs :
        /\ UserstoreTimedOut(r)
        /\ Finished(r)
        /\ response[r][1].statusCode = 408
        /\ Idx(r, "deleteTeam") # {}
        /\ Idx(r, "pollForUserCreation") = {}

\* the application listing returned, with no application in it
NoApplication(r) ==
    \E i \in Idx(r, "listCurrentApplication") :
        /\ Returned(trace[r][i])
        /\ \/ "applications" \notin DOMAIN trace[r][i].out.data
           \/ trace[r][i].out.data.applications = <<>>

\* the role listing returned, with no role in it
NoAdminRole(r) ==
    \E i \in Idx(r, "getRole") :
        /\ Returned(trace[r][i])
        /\ \/ "Resources" \notin DOMAIN trace[r][i].out.data
           \/ trace[r][i].out.data.Resources = <<>>

\* C7: when the application listing holds no application, or the role
\* listing no admin role, compensation is invoked for the created
\* organization and the caller receives 404 with the matching "not found"
\* error; the role lookup is never invoked after a failed application
\* lookup, nor the role patch after a failed role lookup.
C7_NotFoundCompensates ==
    \A r \in Runs :
        /\ NoApplication(r) =>
            /\ Finished(r)
            /\ CompensatedOnce(r)
            /\ NoStepAfter(r, "listCurrentApplication")
            /\ response[r][1].statusCode = 404
            /\ req[r].body.appName = "x" =>
                    Field(response[r][1].body, "error")
                        = "Sign up failed. Application 'x' not found"
        /\ NoAdminRole(r) =>
            /\ Finished(r)
            /\ CompensatedOnce(r)
            /\ NoStepAfter(r, "getRole")
            /\ response[r][1].statusCode = 404
            /\ Field(response[r][1].body, "error") = "Sign up failed. Admin role not found"

C7_Witness ==
    \E r \in Runs :
        /\ NoApplication(r)
        /\ ReturnedStatus(r, "listCurrentApplication", 200)
        /\ req[r].body.appName = "x"
        /\ Finished(r)
        /\ response[r][1].statusCode = 404
        /\ Idx(r, "deleteTeam") # {}
        /\ Idx(r, "getRole") = {}

C7_WitnessRole ==
    \E r \in Runs :
        /\ NoAdminRole(r)
        /\ ReturnedStatus(r, "getRole", 200)
        /\ Finished(r)
        /\ response[r][1].statusCode = 404
        /\ Idx(r, "deleteTeam") # {}
        /\ Idx(r, "pollforRolePatching") = {}

\* the role patch reported failure, or succeeded with a status other than 200
RolePatchNotOk(r) ==
    \E i \in Idx(r, "pollforRolePatching") :
        /\ Returned(trace[r][i])
        /\ \/ trace[r][i].out.success = FALSE
           \/ trace[r][i].out.status # 200

C8_WitnessReported ==
    \E r \in Runs :
        /\ \E i \in Idx(r, "pollforRolePatching") :
                Returned(trace[r][i]) /\ trace[r][i].out.success = FALSE
        /\ Finished(r)
        /\ Idx(r, "deleteTeam") # {}

\* C9: a fault thrown by a step is handled like a rejection of that step, so
\* that a failed run has compensated exactly when create organization had
\* completed, whichever later step failed and however it failed.
C9_CompensationDependsOnlyOnCreation ==
    \A r \in Runs :
        FailedRun(r) => (CreatedOk(r) <=> Cardinality(Idx(r, "deleteTeam")) = 1)

\* a step of the saga threw
StepThrew(r) ==
    \E i \in DOMAIN trace[r] : trace[r][i].op \in StepOps /\ Threw(trace[r][i])

\* C10: an exception thrown by any step of the saga, token acquisition
\* included, ends in a response with status 500; it never escapes the handler.
C10_ExceptionBecomes500 ==
    \A r \in Runs :
        StepThrew(r) =>
            /\ pc[r] = "done"
            /\ Len(response[r]) = 1
            /\ response[r][1].statusCode = 500

C10_Witness ==
    \E r \in Runs :
        /\ \E i \in Idx(r, "getToken") : Threw(trace[r][i])
        /\ pc[r] = "done"
        /\ response[r][1].statusCode = 500

C10_WitnessLate ==
    \E r \in Runs :
        /\ \E i \in Idx(r, "pollforRolePatching") : Threw(trace[r][i])
        /\ pc[r] = "done"
        /\ response[r][1].statusCode = 500

-----------------------------------------------------------------------------
(* C11 - C20 *)

\* two calls of one step ended alike; the ids and the token the remote
\* service hands out differ from run to run and are not compared; of a
\* delete-organization call and of a response only the place is compared
SameOutcome(e1, e2) ==
    /\ e1.op = e2.op
    /\ e1.op \in StepOps => e1.out.kind = e2.out.kind
    /\ (e1.op \in StepOps /\ e1.out.kind = "return") =>
          CASE e1.op = "createOrg" ->
                  /\ e1.out.statusCode = e2.out.statusCode
                  /\ e1.out.statusCode # 201 => e1.out = e2.out
            [] e1.op = "switchOrg" ->
                  /\ e1.out.statusCode = e2.out.statusCode
                  /\ e1.out.statusCode # 200 => e1.out = e2.out
            [] e1.op = "pollForUserCreation" ->
                  /\ e1.out.success = e2.out.success
                  /\ ~e1.out.success => e1.out = e2.out
            [] OTHER -> e1.out = e2.out

\* runs a and b got the same request and the same outcome of every step
SameButCompensation(a, b) ==
    /\ req[a] = req[b]
    /\ Len(trace[a]) = Len(trace[b])
    /\ \A i \in DOMAIN trace[a] : SameOutcome(trace[a][i], trace[b][i])

\* C11: the outcome of compensation never influences what the caller
\* receives: two runs that differ only in how the delete-organization call
\* ended send the same status and body; and an exception of that call never
\* reaches the handler (the run ends with the failing step's own response).
C11_CompensationOutcomeInvisible ==
    /\ \A a, b \in Runs :
        (/\ Finished(a) /\ Finished(b)
         /\ Idx(a, "deleteTeam") # {}
         /\ SameButCompensation(a, b)) => response[a] = response[b]
    /\ \A r \in Runs :
        (\E i \in Idx(r, "deleteTeam") : Threw(trace[r][i])) =>
            /\ Finished(r)
            /\ ~StepThrew(r)
            /\ Field(response[r][1].body, "error") # "Internal Server Error"

C11_Witness ==
    /\ Finished(1) /\ Finished(2)
    /\ SameButCompensation(1, 2)
    /\ \E i \in Idx(1, "deleteTeam") :
            rollbackOrganization(trace[1][i].token, trace[1][i].orgId, trace[1][i].out)
    /\ \E i \in Idx(2, "deleteTeam") : Threw(trace[2][i])
    /\ response[1] = response[2]
    /\ response[1][1].statusCode = 408

\* what rollbackOrganization returned for the delete call at place i of run r
RollbackValue(r, i) == trace[r][i + 1].out.value

\* the delete call set status 200 and a payload whose success flag is true
DeletionConfirmed(e) ==
    /\ e.out.kind = "return"
    /\ e.out.statusCode = 200
    /\ e.out.responseData # Null
    /\ "success" \in DOMAIN e.out.responseData
    /\ e.out.responseData.success = TRUE

\* C12: rollbackOrganization returns true exactly when the delete call set
\* status 200 and a payload whose success flag is true; another status, a
\* missing or false flag, no response at all or an exception give false.
C12_RollbackReportsConfirmation ==
    \A r \in Runs :
        \A i \in Idx(r, "deleteTeam") :
            /\ i + 1 \in Idx(r, "rollbackOrganization")
            /\ RollbackValue(r, i) <=> DeletionConfirmed(trace[r][i])

C12_Witness ==
    \E r \in Runs :
        \E i \in Idx(r, "deleteTeam") :
            /\ trace[r][i].out.kind = "return"
            /\ trace[r][i].out.statusCode = 200
            /\ trace[r][i].out.responseData = [message |-> "deleted"]
            /\ RollbackValue(r, i) = FALSE

C12_WitnessConfirmed ==
    \E r \in Runs :
        \E i \in Idx(r, "deleteTeam") :
            DeletionConfirmed(trace[r][i]) /\ RollbackValue(r, i) = TRUE

\* the status with which the call of op in run r reported failure, if it did
FailureStatuses(r, op) ==
    {IF op \in {"pollForUserCreation", "pollforRolePatching"}
     THEN trace[r][i].out.status
     ELSE trace[r][i].out.statusCode :
        i \in {j \in Idx(r, op) :
                /\ Returned(trace[r][j])
                /\ CASE op = "createOrg" -> trace[r][j].out.statusCode # 201
                     [] op = "pollForUserCreation" -> ~trace[r][j].out.success
                     [] op = "pollforRolePatching" ->
                            ~trace[r][j].out.success \/ trace[r][j].out.status # 200
                     [] OTHER -> trace[r][j].out.statusCode # 200}}

\* run r answered every failure status of op with the status itself
PassedThrough(r, op) ==
    \A s \in FailureStatuses(r, op) : response[r][1].statusCode = s

\* run r answered every failure of op with the fixed status
AnsweredWith(r, op, status) ==
    FailureStatuses(r, op) # {} => response[r][1].statusCode = status

\* C13 as stated: whenever name validation, organization creation, token
\* exchange, user creation, application listing, role listing or role patch
\* reports failure with a status, the response carries that status verbatim.
C13_EveryFailureStatusVerbatim ==
    \A r \in Runs :
        Finished(r) =>
            \A op \in {"validateOrgName", "createOrg", "switchOrg", "pollForUserCreation",
                       "listCurrentApplication", "getRole", "pollforRolePatching"} :
                PassedThrough(r, op)

\* C13 amended: a failure status of organization creation, token exchange,
\* user creation or role patch is sent to the caller verbatim; a failed name
\* validation is answered 400 and a failed application or role listing 404,
\* whatever status the remote operation reported.
C13_FailureStatusByStep ==
    \A r \in Runs :
        Finished(r) =>
            /\ \A op \in {"createOrg", "switchOrg", "pollForUserCreation",
                          "pollforRolePatching"} : PassedThrough(r, op)
            /\ AnsweredWith(r, "validateOrgName", 400)
            /\ AnsweredWith(r, "listCurrentApplication", 404)
            /\ AnsweredWith(r, "getRole", 404)

C13_Witness ==
    \E r \in Runs :
        /\ Finished(r)
        /\ FailureStatuses(r, "pollForUserCreation") = {500}
        /\ response[r][1].statusCode = 500
        /\ Idx(r, "deleteTeam") # {}

C13_WitnessValidation ==
    \E r \in Runs :
        /\ Finished(r)
        /\ FailureStatuses(r, "validateOrgName") = {500}
        /\ response[r][1].statusCode = 400

\* the ids the remote service can give an organization
OrgIds == {OrgIdOf(r) : r \in Runs}

\* a delete-organization call of run r was confirmed
CompensationConfirmed(r) ==
    \E i \in Idx(r, "deleteTeam") : DeletionConfirmed(trace[r][i])

C15_FailureCarriesCompensatedFlag ==
    \A r \in Runs :
        (FailedRun(r) /\ Idx(r, "deleteTeam") # {}) =>
            /\ "compensated" \in DOMAIN response[r][1].body
            /\ response[r][1].body.compensated = CompensationConfirmed(r)

\* C15 amended: no failure response carries a compensated flag; whether the
\* delete-organization call was confirmed is known only inside
\* rollbackOrganization, whose value the handler discards.
C15_NoCompensatedFlag ==
    \A r \in Runs :
        FailedRun(r) => "compensated" \notin DOMAIN response[r][1].body

C15_Witness ==
    \E r \in Runs :
        /\ FailedRun(r)
        /\ CompensationConfirmed(r)
        /\ DOMAIN response[r][1].body = {"error", "details", "message"}

\* run r answered with a payload of the remote service as it came: after a
\* failed organization creation, or a role patch that succeeded with a status
\* other than 200
UpstreamPayloadSent(r) ==
    \/ FailureStatuses(r, "createOrg") # {}
    \/ \E i \in Idx(r, "pollforRolePatching") :
            /\ Returned(trace[r][i])
            /\ trace[r][i].out.success
            /\ trace[r][i].out.status # 200

\* C16 as stated: every error response to a POST request holds a message
\* field beside the error field.
C16_ErrorResponseHasMessage ==
    \A r \in Runs :
        (FailedRun(r) /\ req[r].method = "POST") =>
            /\ "error" \in DOMAIN response[r][1].body
            /\ "message" \in DOMAIN response[r][1].body

\* C16 amended: an error response to a POST request holds a message field
\* exactly when it answers a failed token exchange, the userstore timeout or
\* a thrown exception; every error response the handler builds itself holds
\* the error field, and the two that pass an upstream payload on hold
\* whatever that payload holds.
C16_MessageOnlyInThreeResponses ==
    \A r \in Runs :
        (FailedRun(r) /\ req[r].method = "POST") =>
            /\ "message" \in DOMAIN response[r][1].body
                    <=> (SwitchRejected(r) \/ UserstoreTimedOut(r) \/ StepThrew(r))
            /\ ~UpstreamPayloadSent(r) => "error" \in DOMAIN response[r][1].body

C16_Witness ==
    \E r \in Runs :
        /\ FailedRun(r)
        /\ NoApplication(r)
        /\ response[r][1].statusCode = 404
        /\ DOMAIN response[r][1].body = {"error"}

C16_WitnessMessage ==
    \E r \in Runs :
        /\ FailedRun(r)
        /\ UserstoreTimedOut(r)
        /\ DOMAIN response[r][1].body = {"error", "message"}

\* the handler's variables of run r
LocalsOf(r) ==
    <<pc[r], req[r], rootAccessToken[r], orgData[r], orgId[r], accessToken[r],
      userData[r], appId[r], roleId[r], response[r], trace[r]>>

\* run r passed the name check and has not called create organization yet
BetweenCheckAndCreate(r) ==
    /\ pc[r] = "createOrg"
    /\ ReturnedStatus(r, "validateOrgName", 200)
    /\ Idx(r, "createOrg") = {}

\* C17: nothing guards the window between the name check and the creation:
\* a run that is about to validate or to create can always take that step,
\* wherever the other run stands, and a step of one run changes nothing of
\* the other run.  (That both runs stand in the window at once, for the same
\* name, is the state C17_Witness reaches.)
C17_NoGuardAgainstRace ==
    /\ [](\A r \in Runs :
            /\ pc[r] = "validateOrgName" => ENABLED ValidateOrgNameStep(r)
            /\ pc[r] = "createOrg" => ENABLED CreateOrgStep(r))
    /\ [][\A a, b \in Runs :
            (a # b /\ LocalsOf(a)' # LocalsOf(a)) => LocalsOf(b)' = LocalsOf(b)]_vars

C17_Witness ==
    /\ req[1].body.organizationName = req[2].body.organizationName
    /\ BetweenCheckAndCreate(1)
    /\ BetweenCheckAndCreate(2)

C17_WitnessBothCreated ==
    /\ req[1].body.organizationName = req[2].body.organizationName
    /\ CreatedOk(1) /\ CreatedOk(2)
    /\ remoteOrgs = {"org1", "org2"}

\* the order in which the handler calls its steps
StepOrder == <<"getToken", "validateOrgName", "createOrg", "switchOrg",
               "pollForDefaultUserstore", "pollForUserCreation",
               "listCurrentApplication", "getRole", "pollforRolePatching">>

IsStep(e) == e.op \in StepOps

\* the calls of steps run r made, in order
StepEvents(r) == SelectSeq(trace[r], IsStep)

\* the call e of a step returned and reported success
StepSucceeded(e) ==
    /\ e.out.kind = "return"
    /\ CASE e.op = "getToken" -> TRUE
         [] e.op = "validateOrgName" -> e.out.statusCode = 200
         [] e.op = "createOrg" -> e.out.statusCode = 201
         [] e.op = "switchOrg" -> e.out.statusCode = 200
         [] e.op = "pollForDefaultUserstore" -> e.out.value = TRUE
         [] e.op = "pollForUserCreation" -> e.out.success = TRUE
         [] e.op = "listCurrentApplication" ->
                /\ e.out.statusCode = 200
                /\ "applications" \in DOMAIN e.out.data
                /\ e.out.data.applications # <<>>
         [] e.op = "getRole" ->
                /\ e.out.statusCode = 200
                /\ "Resources" \in DOMAIN e.out.data
                /\ e.out.data.Resources # <<>>
         [] e.op = "pollforRolePatching" ->
                e.out.success = TRUE /\ e.out.status = 200
         [] OTHER -> FALSE

\* C18: within one run the steps are called in the fixed order, each at most
\* once and only after every earlier step returned successfully; after the
\* first failing step no step is called any more, only (at most once) the
\* compensation, and then the response.
C18_StepsInOrderUntilFirstFailure ==
    \A r \in Runs :
        /\ Len(StepEvents(r)) <= Len(StepOrder)
        /\ \A i \in DOMAIN StepEvents(r) :
                /\ StepEvents(r)[i].op = StepOrder[i]
                /\ i < Len(StepEvents(r)) => StepSucceeded(StepEvents(r)[i])
        /\ \A i, j \in DOMAIN trace[r] :
                (i < j /\ IsStep(trace[r][i]) /\ ~StepSucceeded(trace[r][i])) =>
                    trace[r][j].op \in {"deleteTeam", "rollbackOrganization", "respond"}
        /\ Cardinality(Idx(r, "deleteTeam")) <= 1

C18_Witness ==
    \E r \in Runs :
        /\ pc[r] = "done"
        /\ OpsOf(r) = <<"getToken", "validateOrgName", "createOrg", "switchOrg",
                        "pollForDefaultUserstore", "pollForUserCreation",
                        "listCurrentApplication", "getRole",
                        "deleteTeam", "rollbackOrganization", "respond">>
        /\ ~StepSucceeded(trace[r][8])

\* the calls made with the root token, and the calls made inside the tenant
RootScopedOps == {"validateOrgName", "createOrg", "switchOrg", "deleteTeam"}

TenantScopedOps == {"pollForDefaultUserstore", "pollForUserCreation",
                    "listCurrentApplication", "getRole", "pollforRolePatching"}

\* the tokens run r got from a successful exchange made, before call i, with
\* the root token for an organization this run created
ExchangedTokens(r, i) ==
    {trace[r][j].out.data.access_token :
        j \in {k \in Idx(r, "switchOrg") :
                /\ k < i
                /\ Returned(trace[r][k])
                /\ trace[r][k].out.statusCode = 200
                /\ trace[r][k].orgId \in CreatedIds(r)
                /\ trace[r][k].token \in RootTokensOf(r)}}

\* C19: name validation, organization creation, token exchange and every
\* delete call are passed the root token of step 1; the userstore poll, user
\* creation, application listing, role lookup and role patch are passed the
\* token the exchange of the same run returned for the organization that run
\* created, and never the root token.
C19_TokenScoping ==
    \A r \in Runs : \A i \in DOMAIN trace[r] :
        /\ trace[r][i].op \in RootScopedOps =>
                trace[r][i].token \in RootTokensOf(r)
        /\ trace[r][i].op \in TenantScopedOps =>
                /\ trace[r][i].token \in ExchangedTokens(r, i)
                /\ trace[r][i].token \notin RootTokensOf(r)

C19_Witness ==
    /\ \A r \in Runs :
            /\ Idx(r, "pollforRolePatching") # {}
            /\ Idx(r, "deleteTeam") # {}
    /\ \E i \in Idx(1, "getRole"), j \in Idx(2, "getRole") :
            trace[1][i].token # trace[2][j].token

\* A call that was awaited returns or throws, and the continuation of the
\* handler then runs: a step that can be taken is eventually taken.  Every
\* step moves the position of its run, so fairness is stated on pc.
SpecFair == Spec /\ WF_pc(Next)

Invoked(r) == pc[r] # "off"

\* run r made no call of a collaborator
NoRemoteCall(r) == \A i \in DOMAIN trace[r] : trace[r][i].op = "respond"

\* C20: every invocation of the handler ends, and when it has ended it has
\* sent exactly one response, whatever the path; it never sends a second one,
\* and a request that is not a POST is answered without any remote call.
C20_TerminatesWithOneResponse ==
    /\ \A r \in Runs : Invoked(r) ~> (pc[r] = "done" /\ Len(response[r]) = 1)
    /\ [](\A r \in Runs :
            /\ Len(response[r]) <= 1
            /\ Len(response[r]) = 1 => pc[r] = "done"
            /\ pc[r] = "done" => Len(response[r]) = 1
            /\ req[r].method # "POST" => NoRemoteCall(r))

C20_Witness ==
    \E r \in Runs :
        /\ pc[r] = "done"
        /\ Len(response[r]) = 1
        /\ Idx(r, "deleteTeam") # {}
        /\ Cardinality(Idx(r, "respond")) = 1

C20_WitnessNotPost ==
    \E r \in Runs :
        /\ req[r].method # "POST"
        /\ pc[r] = "done"
        /\ Len(response[r]) = 1
        /\ OpsOf(r) = <<"respond">>

====
